---- MODULE Spec2Model ----
(***************************************************************************)
(* Model of backend/main.py: a FastAPI application that loads one          *)
(* QwenImageEditPipeline at startup and serves POST /edit-image.           *)
(*                                                                         *)
(* The diffusion pipeline, PIL and the upload objects are outside the      *)
(* repository.  They are modelled by what main.py can observe of them:     *)
(* a call either raises an Exception subclass or returns a value, and the  *)
(* environment picks which.                                                *)
(*                                                                         *)
(* Two specifications share the same handler code:                         *)
(*   Spec      requests served one after another, each handler run from    *)
(*             entry to response, over the full set of form fields;        *)
(*   SpecLoop  several requests in flight as coroutines of one event       *)
(*             loop, each suspended only at its awaits.                    *)
(***************************************************************************)
EXTENDS Integers, Sequences, FiniteSets, TLC

VARIABLES
    device,     \* main.py:25   "cuda" or "cpu"
    model,      \* main.py:24   the global pipeline, or NoModel (None)
    started,    \* the startup event has run
    loadError,  \* the step of load_model that raised ("" when none did)
    last,       \* Spec: the frame of the request served most recently
    served,     \* Spec: the number of requests served so far
    frames,     \* SpecLoop: the coroutine frame of each request slot
    running     \* SpecLoop: the slot that holds the event loop (0: none)

vars == <<device, model, started, loadError, last, served, frames, running>>

----------------------------------------------------------------------------
(* Bounds *)

\* Spec: how many requests are served in one run.
MaxServed == 3
\* SpecLoop: how many requests may be in flight at once.
MaxInFlight == 2

\* main.py:68
Seed == 42

----------------------------------------------------------------------------
(* Startup: the global model (main.py:23-41) *)

\* main.py:24   model = None
NoModel == [loaded |-> FALSE, dtype |-> "", device |-> "", offload |-> FALSE]

\* main.py:32-35   QwenImageEditPipeline.from_pretrained(..., torch_dtype=...)
FromPretrained ==
    [loaded |-> TRUE,
     dtype |-> IF device = "cuda" THEN "bfloat16" ELSE "float32",
     device |-> "",
     offload |-> FALSE]

\* main.py:36   model.to(device)
To(m) == [m EXCEPT !.device = device]

\* main.py:37   model.enable_model_cpu_offload()
EnableOffload(m) == [m EXCEPT !.offload = TRUE]

LoadSteps == {"from_pretrained", "to", "enable_model_cpu_offload"}

LoadFailedKeeps(partial) == partial
\* main.py:39-41   except Exception: model = None
LoadFailed(partial) == NoModel

\* main.py:31-41   the value of the global after load_model, when the step
\* failAt raises ("" when no step does).  The global is assigned after
\* from_pretrained and again after to(), so a later failure finds it set.
LoadedModel(failAt) ==
    LET m1 == FromPretrained
        m2 == To(m1)
        m3 == EnableOffload(m2)
    IN  CASE failAt = "from_pretrained" -> LoadFailed(model)
          [] failAt = "to" -> LoadFailed(m1)
          [] failAt = "enable_model_cpu_offload" -> LoadFailed(m2)
          [] OTHER -> m3

StartupAnytime == TRUE
\* main.py:28   @app.on_event("startup"): run once, before requests are served
StartupPending == ~started

----------------------------------------------------------------------------
(* The request's form fields (main.py:44-52) *)

NoUpload == [present |-> FALSE, readable |-> FALSE, content |-> ""]

\* image: UploadFile = File(...)
ImageUploads ==
    {[present |-> TRUE, readable |-> TRUE, content |-> "photo.rgba"],
     [present |-> TRUE, readable |-> TRUE, content |-> "garbage"],
     [present |-> TRUE, readable |-> FALSE, content |-> "photo.rgba"]}

\* reference_image: Optional[UploadFile] = File(None)
ReferenceUploads ==
    {NoUpload,
     [present |-> TRUE, readable |-> TRUE, content |-> "backdrop.gray"],
     [present |-> TRUE, readable |-> TRUE, content |-> "garbage"],
     [present |-> TRUE, readable |-> FALSE, content |-> "backdrop.gray"]}

KnownEditTypes ==
    {"remove_bg", "replace_bg_auto", "replace_bg_custom", "enhance", "colorize"}
EditTypes == KnownEditTypes \cup {"", "sepia"}

Fallback == "Enhance this image appropriately."
Prompts == {"", "make the sky purple", Fallback}

\* main.py:49-51   the defaults of negative_prompt, num_inference_steps and
\* true_cfg_scale
DefaultTuning ==
    [negative_prompt |-> "", num_inference_steps |-> 50, true_cfg_scale |-> 4]
CustomTuning ==
    [negative_prompt |-> "blurry", num_inference_steps |-> 20,
     true_cfg_scale |-> 7]

FormWith(image, reference_image, edit_type, prompt, tuning) ==
    [image |-> image, reference_image |-> reference_image,
     edit_type |-> edit_type, prompt |-> prompt,
     negative_prompt |-> tuning.negative_prompt,
     num_inference_steps |-> tuning.num_inference_steps,
     true_cfg_scale |-> tuning.true_cfg_scale]

\* Every combination of uploads, edit type and prompt with the default
\* tuning, and every combination of uploads and prompt with the defaults
\* overridden.
Forms ==
    {FormWith(i, r, e, p, DefaultTuning) :
        i \in ImageUploads, r \in ReferenceUploads, e \in EditTypes,
        p \in Prompts}
    \cup
    {FormWith(i, r, "replace_bg_custom", p, CustomTuning) :
        i \in ImageUploads, r \in ReferenceUploads, p \in Prompts}

\* SpecLoop draws its requests from the forms that differ in their uploads.
LoopForms ==
    {FormWith(i, r, "enhance", "", DefaultTuning) :
        i \in ImageUploads, r \in ReferenceUploads}

NoForm ==
    [image |-> NoUpload, reference_image |-> NoUpload, edit_type |-> "",
     prompt |-> "", negative_prompt |-> "", num_inference_steps |-> 0,
     true_cfg_scale |-> 0]

----------------------------------------------------------------------------
(* get_prompt_for_edit_type (main.py:99-107) *)

\* main.py:100-106
prompts ==
    [e \in KnownEditTypes |->
        CASE e = "remove_bg" ->
               "Remove the background from this image, keeping only the main subject with a transparent background."
          [] e = "replace_bg_auto" ->
               "Replace the background with an aesthetically pleasing, contextually appropriate background."
          [] e = "replace_bg_custom" ->
               "Replace the background with the reference image, ensuring seamless integration."
          [] e = "enhance" ->
               "Enhance the image quality, improve sharpness, color balance, and overall visual appeal."
          [] e = "colorize" ->
               "Adjust colors, improve contrast, and enhance visual quality while maintaining original style."]

get_prompt_no_default(edit_type) ==
    IF edit_type \in DOMAIN prompts THEN prompts[edit_type] ELSE ""
\* main.py:107   prompts.get(edit_type, "Enhance this image appropriately.")
get_prompt_for_edit_type(edit_type) ==
    IF edit_type \in DOMAIN prompts
    THEN prompts[edit_type]
    ELSE "Enhance this image appropriately."

----------------------------------------------------------------------------
(* Values the handler works with *)

NoImage == [pixels |-> "", mode |-> ""]
NoBody == [format |-> "", pixels |-> ""]
NoInputs == [k \in {} |-> ""]
NoOutput == [raises |-> FALSE, images |-> <<>>]
NoResponse ==
    [kind |-> "", status_code |-> 0, media_type |-> "", detail |-> "",
     body |-> NoBody]

\* What the pipeline call can do: raise, or return an object whose images
\* list is empty, holds one image, holds several, or holds an image that
\* cannot be written as PNG.
Outputs ==
    {[raises |-> TRUE, images |-> <<>>],
     [raises |-> FALSE, images |-> <<>>],
     [raises |-> FALSE, images |-> <<"edited">>],
     [raises |-> FALSE, images |-> <<"edited", "draft">>],
     [raises |-> FALSE, images |-> <<"unsavable">>]}

\* main.py:59, 74   Image.open(io.BytesIO(b)) succeeds on image data only
Decodable(content) == content \in {"photo.rgba", "backdrop.gray"}

\* main.py:59, 74   Image.open(...).convert("RGB")
Decode(content) == [pixels |-> content, mode |-> "RGB"]

\* main.py:86   edited_image.save(img_buffer, format="PNG") can raise
Savable(img) == img # "unsavable"

\* main.py:85-87   the PNG bytes of an image
PngEncode(img) == [format |-> "PNG", pixels |-> img]

LastImage(images) == images[Len(images)]
\* main.py:82   output.images[0]
FirstImage(images) == images[1]

StaleGenerator == [device |-> device, seed |-> Seed, offset |-> served]
\* main.py:68   torch.Generator(device=device).manual_seed(42): a new
\* generator per request, from which nothing has been drawn yet
Generator == [device |-> device, seed |-> Seed, offset |-> 0]

PromptArgEditTypeFirst(prompt, edit_type) ==
    IF edit_type \in KnownEditTypes \/ prompt = ""
    THEN [value |-> get_prompt_for_edit_type(edit_type), looked_up |-> TRUE]
    ELSE [value |-> prompt, looked_up |-> FALSE]
\* main.py:64   prompt or get_prompt_for_edit_type(edit_type): the lookup is
\* called only when the prompt is falsy (the empty string)
PromptArg(prompt, edit_type) ==
    IF prompt # ""
    THEN [value |-> prompt, looked_up |-> FALSE]
    ELSE [value |-> get_prompt_for_edit_type(edit_type), looked_up |-> TRUE]

HasReferenceAlways(upload) == TRUE
\* main.py:72   if reference_image: an UploadFile is truthy, None is not
HasReference(upload) == upload.present

ModelNotLoadedNever == FALSE
\* main.py:53   if model is None
ModelNotLoaded == ~model.loaded

----------------------------------------------------------------------------
(* Exceptions and responses *)

\* Every exception the handler's steps raise is a subclass of Exception.
ReadError == [type |-> "ValueError", msg |-> "I/O operation on closed file."]
UnidentifiedImageError ==
    [type |-> "UnidentifiedImageError", msg |-> "cannot identify image file"]
AttributeError ==
    [type |-> "AttributeError",
     msg |-> "'NoneType' object has no attribute 'read'"]
NotCallable ==
    [type |-> "TypeError", msg |-> "'NoneType' object is not callable"]
PipelineError == [type |-> "RuntimeError", msg |-> "pipeline failed"]
IndexError == [type |-> "IndexError", msg |-> "list index out of range"]
SaveError == [type |-> "OSError", msg |-> "cannot write image as PNG"]

\* main.py:54, 97   HTTPException(status_code=..., detail=...)
HTTPException(status_code, detail) ==
    [kind |-> "error", status_code |-> status_code,
     media_type |-> "application/json", detail |-> detail, body |-> NoBody]

\* main.py:89-93   StreamingResponse(io.BytesIO(img_bytes), media_type="image/png")
StreamingResponse(img_bytes) ==
    [kind |-> "png", status_code |-> 200, media_type |-> "image/png",
     detail |-> "", body |-> img_bytes]

\* An exception that no except clause of the handler catches.
Escaped(e) ==
    [kind |-> "escaped", status_code |-> 0, media_type |-> "",
     detail |-> e.msg, body |-> NoBody]

CatchesOSErrorOnly(e) == e.type \in {"OSError", "UnidentifiedImageError"}
\* main.py:95   except Exception as e
Catches(e) ==
    e.type \in {"ValueError", "OSError", "UnidentifiedImageError",
                "AttributeError", "TypeError", "RuntimeError", "IndexError"}

\* main.py:95-97   raise HTTPException(status_code=500, detail=str(e))
Except(e) == IF Catches(e) THEN HTTPException(500, e.msg) ELSE Escaped(e)

----------------------------------------------------------------------------
(* edit_image (main.py:43-97) as steps over the coroutine's frame *)

NewFrame(form) ==
    [pc |-> "entry", form |-> form, effects |-> <<>>, pil_image |-> NoImage,
     inputs |-> NoInputs, output |-> NoOutput, response |-> NoResponse]

Did(f, what) == [f EXCEPT !.effects = Append(@, what)]

\* an exception raised inside the try block (main.py:56-97)
Raise(f, e) == [f EXCEPT !.pc = "done", !.response = Except(e)]

\* main.py:53-58   from the call to the first await
Enter(f) ==
    IF ModelNotLoaded
    THEN [f EXCEPT !.pc = "done",
                   !.response = HTTPException(500,
                       "Model not loaded. Please check server logs.")]
    ELSE [f EXCEPT !.pc = "read_image"]

\* main.py:62-69   the inputs dictionary
BuildInputs(f, pil_image, prompt) ==
    [image |-> pil_image,
     prompt |-> prompt,
     negative_prompt |-> f.form.negative_prompt,
     num_inference_steps |-> f.form.num_inference_steps,
     true_cfg_scale |-> f.form.true_cfg_scale,
     generator |-> Generator]

\* main.py:77   inputs["reference_image"] = ref_image
WithReference(inputs, ref_image) ==
    [k \in DOMAIN inputs \cup {"reference_image"} |->
        IF k = "reference_image" THEN ref_image ELSE inputs[k]]

\* main.py:58-73   from the result of image.read() to the next await or to
\* the model call
AfterReadImage(f) ==
    LET up == f.form.image
        f1 == Did(f, "image.read")
        f2 == Did(f1, "Image.open(image)")
        arg == PromptArg(f.form.prompt, f.form.edit_type)
        f3 == IF arg.looked_up THEN Did(f2, "get_prompt_for_edit_type") ELSE f2
        pil == Decode(up.content)
        f4 == [f3 EXCEPT !.pil_image = pil,
                         !.inputs = BuildInputs(f, pil, arg.value)]
    IN  IF ~up.readable THEN Raise(f1, ReadError)
        ELSE IF ~Decodable(up.content) THEN Raise(f2, UnidentifiedImageError)
        ELSE IF HasReference(f.form.reference_image)
             THEN [f4 EXCEPT !.pc = "read_ref"]
             ELSE [f4 EXCEPT !.pc = "call_model"]

\* main.py:73-77   from the result of reference_image.read() to the model call
AfterReadRef(f) ==
    LET up == f.form.reference_image
        f1 == Did(f, "reference_image.read")
        f2 == Did(f1, "Image.open(reference_image)")
    IN  IF ~up.present THEN Raise(f1, AttributeError)
        ELSE IF ~up.readable THEN Raise(f1, ReadError)
        ELSE IF ~Decodable(up.content) THEN Raise(f2, UnidentifiedImageError)
        ELSE [f2 EXCEPT !.pc = "call_model",
                        !.inputs = WithReference(@, Decode(up.content))]

\* main.py:80-81   model(**inputs) is entered
StartModelCall(f) == [Did(f, "model") EXCEPT !.pc = "in_model"]

\* main.py:81-93   the call returns or raises; the first image is encoded
\* and the response is built
FinishModelCall(f, out) ==
    LET f1 == [f EXCEPT !.output = out]
        f2 == Did(f1, "save")
    IN  IF ~model.loaded THEN Raise(f, NotCallable)
        ELSE IF out.raises THEN Raise(f1, PipelineError)
        ELSE IF out.images = <<>> THEN Raise(f1, IndexError)
        ELSE IF ~Savable(FirstImage(out.images)) THEN Raise(f2, SaveError)
        ELSE [f2 EXCEPT !.pc = "done",
                        !.response =
                            StreamingResponse(PngEncode(FirstImage(out.images)))]

\* One step of the handler from the place f.pc names.
Step(f, out) ==
    CASE f.pc = "read_image" -> AfterReadImage(f)
      [] f.pc = "read_ref" -> AfterReadRef(f)
      [] f.pc = "call_model" -> StartModelCall(f)
      [] f.pc = "in_model" -> FinishModelCall(f, out)

\* The handler run from f until it has entered the pipeline call or has
\* its response: up to there nothing depends on what the pipeline does.
RECURSIVE RunToCall(_)
RunToCall(f) ==
    IF f.pc \in {"done", "in_model"} THEN f ELSE RunToCall(Step(f, NoOutput))

\* main.py:43-97   edit_image from call to response; out is what the
\* pipeline does if the handler calls it
edit_image(form, out) ==
    LET f == RunToCall(Enter(NewFrame(form)))
    IN  IF f.pc = "done" THEN f ELSE FinishModelCall(f, out)

\* The pipeline produces an output only for a request whose handler calls it.
OutputsFor(form) ==
    IF RunToCall(Enter(NewFrame(form))).pc = "done" THEN {NoOutput} ELSE Outputs

----------------------------------------------------------------------------
(* The state machine *)

Slots == 1 .. MaxInFlight

Idle == [NewFrame(NoForm) EXCEPT !.pc = "idle"]

Init ==
    /\ device \in {"cuda", "cpu"}
    /\ model = NoModel
    /\ started = FALSE
    /\ loadError = ""
    /\ last = Idle
    /\ served = 0
    /\ frames = [r \in Slots |-> Idle]
    /\ running = 0

\* main.py:28-41   the startup event: load_model holds no await, so it runs
\* as one step; any of its three calls may raise
LoadModel ==
    /\ StartupPending
    /\ \E failAt \in LoadSteps \cup {""} :
          /\ model' = LoadedModel(failAt)
          /\ loadError' = failAt
    /\ started' = TRUE
    /\ UNCHANGED <<device, last, served, frames, running>>

\* main.py:43-97   Spec: one request handled from call to response
Serve ==
    /\ started
    /\ served < MaxServed
    /\ \E form \in Forms :
          \E out \in OutputsFor(form) : last' = edit_image(form, out)
    /\ served' = served + 1
    /\ UNCHANGED <<device, model, started, loadError, frames, running>>

YieldsInModelToo(pc) == pc \in {"read_image", "read_ref", "in_model"}
\* main.py:58, 73   the handler's only awaits: the coroutine gives up the
\* event loop while it waits for image.read() or reference_image.read()
Yields(pc) == pc \in {"read_image", "read_ref"}

\* The slot that holds the event loop after slot r has reached frame f.
Holder(r, f) == IF Yields(f.pc) \/ f.pc = "done" THEN 0 ELSE r

\* A coroutine that has returned or raised keeps only its response.
Settle(f) ==
    IF f.pc = "done"
    THEN [Idle EXCEPT !.pc = "done", !.response = f.response]
    ELSE f

\* main.py:44-58   SpecLoop: the event loop starts the handler of a new request
Accept(r) ==
    /\ started
    /\ running = 0
    /\ frames[r].pc = "idle"
    /\ \E form \in LoopForms :
          LET f == Enter(NewFrame(form))
          IN  /\ frames' = [frames EXCEPT ![r] = Settle(f)]
              /\ running' = Holder(r, f)
    /\ UNCHANGED <<device, model, started, loadError, last, served>>

\* main.py:58, 73   SpecLoop: the event loop resumes a coroutine whose await
\* has completed
Resume(r) ==
    /\ running = 0
    /\ Yields(frames[r].pc)
    /\ \E out \in Outputs :
          LET f == Step(frames[r], out)
          IN  /\ frames' = [frames EXCEPT ![r] = Settle(f)]
              /\ running' = Holder(r, f)
    /\ UNCHANGED <<device, model, started, loadError, last, served>>

\* main.py:80-93   SpecLoop: the coroutine that holds the loop goes on
Proceed(r) ==
    /\ running = r
    /\ \E out \in Outputs :
          LET f == Step(frames[r], out)
          IN  /\ frames' = [frames EXCEPT ![r] = Settle(f)]
              /\ running' = Holder(r, f)
    /\ UNCHANGED <<device, model, started, loadError, last, served>>

\* SpecLoop: the response (or the error) is sent and the request is over
Respond(r) ==
    /\ running = 0
    /\ frames[r].pc = "done"
    /\ frames' = [frames EXCEPT ![r] = Idle]
    /\ UNCHANGED <<device, model, started, loadError, last, served, running>>

Next == LoadModel \/ Serve

Spec == Init /\ [][Next]_vars

NextLoop ==
    \/ LoadModel
    \/ \E r \in Slots : Accept(r)
    \/ \E r \in Slots : Resume(r)
    \/ \E r \in Slots : Proceed(r)
    \/ \E r \in Slots : Respond(r)

SpecLoop == Init /\ [][NextLoop]_vars

----------------------------------------------------------------------------
(* Properties *)

\* Spec: last is the frame of a request that has been served.
Handled == served > 0

Effects(f) == {f.effects[i] : i \in DOMAIN f.effects}

Count(seq, x) == Cardinality({i \in DOMAIN seq : seq[i] = x})

\* The handler of frame f has called the pipeline.
Called(f) == "model" \in Effects(f)

BaseKeys ==
    {"image", "prompt", "negative_prompt", "num_inference_steps",
     "true_cfg_scale", "generator"}

\* C1: whichever step of a request fails (reading or decoding the image,
\* reading or decoding the reference image, the pipeline call, taking the
\* first image, PNG encoding), the response is an HTTP error with status 500
\* carrying the exception's text, and no exception escapes the handler.
C1_FailuresAre500 ==
    Handled =>
        /\ last.response.kind # "escaped"
        /\ last.response.kind # "png" =>
              /\ last.response.kind = "error"
              /\ last.response.status_code = 500
              /\ last.response.media_type # "image/png"

\* A request whose PNG encoding failed was answered with status 500.
C1_Witness ==
    /\ Handled
    /\ last.effects # <<>>
    /\ last.effects[Len(last.effects)] = "save"
    /\ last.response.kind = "error"
    /\ last.response.status_code = 500
    /\ last.response.detail = SaveError.msg

\* C2: a request ends with a PNG stream or with an error; a PNG stream has
\* media type image/png, is the encoding of the first image of the
\* pipeline's output, and is returned only if the model was loaded, the main
\* image was decoded and the pipeline was called exactly once and returned.
C2_PngOrError ==
    Handled =>
        /\ last.response.kind \in {"png", "error"}
        /\ last.response.kind = "error" => last.response.body = NoBody
        /\ last.response.kind = "png" =>
              /\ last.response.media_type = "image/png"
              /\ last.output.images # <<>>
              /\ last.response.body = PngEncode(last.output.images[1])
              /\ model.loaded
              /\ "Image.open(image)" \in Effects(last)
              /\ last.inputs.image = Decode(last.form.image.content)
              /\ Count(last.effects, "model") = 1
              /\ ~last.output.raises

\* A PNG was returned from an output that holds more than one image.
C2_Witness ==
    /\ Handled
    /\ last.response.kind = "png"
    /\ Len(last.output.images) > 1

\* C3: only the startup event assigns the global model, it runs once and
\* before any request is served, and serving a request leaves the model as
\* it was, whatever the request's outcome.
C3_ModelLoadedOnce ==
    [][/\ model' # model => ~started /\ started'
       /\ started => started'
       /\ served' # served => started /\ model' = model]_vars

\* Two requests were served, the latest ended in a caught exception, and the
\* model is still the loaded pipeline.
C3_Witness ==
    /\ served >= 2
    /\ model.loaded
    /\ Called(last)
    /\ last.response.kind = "error"

\* C4: every pipeline call gets a new generator seeded with 42, and a
\* request served after another request with the same form fields passes the
\* same inputs to the pipeline and, when the pipeline does the same, gets
\* the same response: nothing is carried over from earlier requests.
C4_Stateless ==
    [][served' = served + 1 =>
          /\ Called(last') =>
                last'.inputs.generator =
                    [device |-> device, seed |-> 42, offset |-> 0]
          /\ (served >= 1 /\ last'.form = last.form) =>
                /\ Called(last') = Called(last)
                /\ last'.inputs = last.inputs
                /\ last'.output = last.output => last' = last]_vars

\* A request served after two others called the pipeline and got its PNG.
C4_Witness ==
    /\ served >= 3
    /\ Called(last)
    /\ last.response.kind = "png"

\* C5: whenever the handler looks up the default prompt, the prompt is the
\* table's entry for each of the five edit types and
\* 'Enhance this image appropriately.' for every other edit type, the empty
\* string included; the lookup always yields a prompt.
C5_PromptLookup ==
    (Handled /\ "get_prompt_for_edit_type" \in Effects(last)) =>
        /\ last.form.edit_type \in
              {"remove_bg", "replace_bg_auto", "replace_bg_custom", "enhance",
               "colorize"} =>
              last.inputs.prompt = prompts[last.form.edit_type]
        /\ last.form.edit_type \notin
              {"remove_bg", "replace_bg_auto", "replace_bg_custom", "enhance",
               "colorize"} =>
              last.inputs.prompt = "Enhance this image appropriately."
        /\ last.inputs.prompt # ""

\* The lookup was made for the empty edit type and gave the fallback.
C5_Witness ==
    /\ Handled
    /\ "get_prompt_for_edit_type" \in Effects(last)
    /\ last.form.edit_type = ""
    /\ last.inputs.prompt = "Enhance this image appropriately."

\* C6: the pipeline is called with the six base keys, plus reference_image
\* exactly when a reference image was uploaded (and then decoded); a request
\* without a reference image never touches one and reaches the pipeline call
\* whenever its main image decodes.
C6_ReferenceOptional ==
    Handled =>
        /\ Called(last) =>
              DOMAIN last.inputs =
                  IF last.form.reference_image.present
                  THEN BaseKeys \cup {"reference_image"}
                  ELSE BaseKeys
        /\ (Called(last) /\ last.form.reference_image.present) =>
              /\ "Image.open(reference_image)" \in Effects(last)
              /\ last.inputs.reference_image =
                    Decode(last.form.reference_image.content)
        /\ ~last.form.reference_image.present =>
              /\ "reference_image.read" \notin Effects(last)
              /\ (/\ model.loaded
                  /\ last.form.image.readable
                  /\ Decodable(last.form.image.content)) => Called(last)

\* A request without a reference image got its PNG.
C6_Witness ==
    /\ Handled
    /\ ~last.form.reference_image.present
    /\ last.response.kind = "png"
    /\ DOMAIN last.inputs = BaseKeys

\* C7: the prompt passed to the pipeline is the form's prompt when that is
\* not empty (and then no lookup is made), and the edit type's default
\* prompt, looked up, when it is empty; it is never empty, and the other
\* form fields are passed as given.
C7_PromptTranslation ==
    (Handled /\ Called(last)) =>
        /\ last.form.prompt # "" =>
              /\ last.inputs.prompt = last.form.prompt
              /\ "get_prompt_for_edit_type" \notin Effects(last)
        /\ last.form.prompt = "" =>
              /\ last.inputs.prompt =
                    get_prompt_for_edit_type(last.form.edit_type)
              /\ "get_prompt_for_edit_type" \in Effects(last)
        /\ last.inputs.prompt # ""
        /\ last.inputs.negative_prompt = last.form.negative_prompt
        /\ last.inputs.num_inference_steps = last.form.num_inference_steps
        /\ last.inputs.true_cfg_scale = last.form.true_cfg_scale

\* A request with a prompt and a known edit type: the prompt was passed.
C7_Witness ==
    /\ Handled
    /\ Called(last)
    /\ last.form.edit_type = "remove_bg"
    /\ last.form.prompt = "make the sky purple"
    /\ last.inputs.prompt = "make the sky purple"

\* C8: while the model is not loaded, a request is answered with status 500
\* and 'Model not loaded. Please check server logs.' before any upload is
\* read or decoded and without a pipeline call; and once startup has ended
\* with the model not loaded it stays so and no request returns a PNG.
C8_NotLoadedRejects ==
    /\ []((started /\ ~model.loaded /\ Handled) =>
            /\ last.response.kind = "error"
            /\ last.response.status_code = 500
            /\ last.response.detail =
                  "Model not loaded. Please check server logs."
            /\ last.effects = <<>>)
    /\ [][(started /\ ~model.loaded) =>
            /\ ~model'.loaded
            /\ last'.response.kind # "png"]_vars

\* Startup ended without a model and two requests have been rejected.
C8_Witness ==
    /\ started
    /\ ~model.loaded
    /\ served >= 2
    /\ last.response.status_code = 500

\* C9: after startup the model is None if a step of load_model raised, and
\* otherwise the pipeline on which from_pretrained, to(device) and
\* enable_model_cpu_offload all completed; startup ends either way.
C9_LoadAllOrNothing ==
    /\ ~started => model = NoModel
    /\ (started /\ loadError # "") => model = NoModel
    /\ (started /\ loadError = "") =>
          model = [loaded |-> TRUE,
                   dtype |-> IF device = "cuda" THEN "bfloat16" ELSE "float32",
                   device |-> device,
                   offload |-> TRUE]

\* enable_model_cpu_offload raised, startup ended, and a request was served.
C9_Witness ==
    /\ started
    /\ loadError = "enable_model_cpu_offload"
    /\ model = NoModel
    /\ Handled

\* The slots whose pipeline call is in progress.
InModel == {r \in Slots : frames[r].pc = "in_model"}

\* C10: at most one pipeline call is in progress at any time, and a request
\* that is in or past its pipeline call holds the event loop until it has
\* its response, so the loop is free only while every request in flight
\* waits for an upload read or has finished.
C10_OneInvocation ==
    /\ Cardinality(InModel) <= 1
    /\ \A r \in Slots :
          frames[r].pc \in {"call_model", "in_model"} => running = r
    /\ running = 0 =>
          \A r \in Slots :
              frames[r].pc \in {"idle", "read_image", "read_ref", "done"}

\* One request is inside the pipeline call while another waits for a read.
C10_Witness ==
    \E r1, r2 \in Slots :
        /\ r1 # r2
        /\ frames[r1].pc = "in_model"
        /\ frames[r2].pc \in {"read_image", "read_ref"}

====
